---- MODULE Spec2Model ----
(***************************************************************************)
(* Directory-watching media ingestion of MediaCMS:                         *)
(*   - the poll/scan command  files/management/commands/                   *)
(*     watch_media_directories.py  (Command.handle / process_config),      *)
(*   - the event-driven handler  files/directory_monitor.py                *)
(*     (MediaFileHandler with its debounce worker),                        *)
(*   - the ledger  files/models/auto_import.py  (MediaAutoImportRecord).   *)
(* Both strategies share the file system and the Media table.              *)
(***************************************************************************)
EXTENDS Integers, Sequences, FiniteSets, TLC

(***************************************************************************)
(* Bounds of the model.                                                    *)
(***************************************************************************)
\* Rows of the Media table.
MaxMedia == 3
\* Last value of the clock (seconds).
MaxTime == 3
\* Stand-in for settings.UPLOAD_MAX_SIZE (bytes); the source default is
\* 800 * 1024 * 1000 * 5.
UploadMaxSize == 2
\* Stand-in for settings.MEDIA_WATCH_DEBOUNCE_SECONDS (source default 5).
DebounceSeconds == 2

\* Stand-in for the timeout of worker_thread.join(timeout=5) in
\* MediaFileHandler.stop (seconds).
JoinTimeout == 1

\* The longest list of configured directories.
MaxConfigs == 2

\* The passes of a continuous run of the scan command that are followed.
MaxPasses == 2

\* The handlers one DirectoryMonitor creates over its life.
MaxStarts == 2

\* The shortest pause between two passes: max(options["interval"], 1).
MinInterval == 1

(***************************************************************************)
(* Strings are sequences of one-character strings.                         *)
(***************************************************************************)
UpperChars == <<"A","B","C","D","E","F","G","H","I","J","K","L","M",
                "N","O","P","Q","R","S","T","U","V","W","X","Y","Z">>
LowerChars == <<"a","b","c","d","e","f","g","h","i","j","k","l","m",
                "n","o","p","q","r","s","t","u","v","w","x","y","z">>

\* str.lower() on one character.
LowerChar(c) ==
    IF \E i \in DOMAIN UpperChars : UpperChars[i] = c
    THEN LowerChars[CHOOSE i \in DOMAIN UpperChars : UpperChars[i] = c]
    ELSE c

\* str.lower()
Lower(s) == [i \in 1..Len(s) |-> LowerChar(s[i])]

\* str.lstrip(".")
RECURSIVE LStripDot(_)
LStripDot(s) == IF s # <<>> /\ Head(s) = "." THEN LStripDot(Tail(s)) ELSE s

\* str.rfind(c) with 1-based positions, 0 when absent.
RFind(s, c) ==
    IF \E i \in 1..Len(s) : s[i] = c
    THEN CHOOSE i \in 1..Len(s) : s[i] = c /\ \A j \in (i+1)..Len(s) : s[j] # c
    ELSE 0

StartsWith(s, pre) ==
    Len(s) >= Len(pre) /\ SubSeq(s, 1, Len(pre)) = pre

EndsWith(s, suf) ==
    Len(s) >= Len(suf) /\ SubSeq(s, Len(s) - Len(suf) + 1, Len(s)) = suf

\* os.path.basename
Basename(path) == SubSeq(path, RFind(path, "/") + 1, Len(path))

\* os.path.splitext(path)[1]: from the last dot of the base name, unless
\* only dots precede it.
SplitExt(path) ==
    LET sep == RFind(path, "/")
        dot == RFind(path, ".")
    IN IF dot > sep /\ \E k \in (sep+1)..(dot-1) : path[k] # "."
       THEN SubSeq(path, dot, Len(path))
       ELSE <<>>

\* pathlib.PurePath.suffix
Suffix(path) ==
    LET name == Basename(path)
        i    == RFind(name, ".")
    IN IF 1 < i /\ i < Len(name) THEN SubSeq(name, i, Len(name)) ELSE <<>>

(***************************************************************************)
(* The watched directory.  Every path has a fixed content; a run starts    *)
(* with some of the paths present.                                         *)
(***************************************************************************)
CeilingContent == [i \in 1..UploadMaxSize |-> 0]
OverContent    == [i \in 1..(UploadMaxSize + 1) |-> 0]
SmallContent   == <<1>>
OtherContent   == <<2>>
EmptyContent   == <<>>

\* The files of the directory /w.
DirectoryTable == <<
    [name |-> <<"/","w","/","a",".","j","p","g">>,     content |-> CeilingContent],
    [name |-> <<"/","w","/","b",".","J","P","G">>,     content |-> CeilingContent],
    [name |-> <<"/","w","/","c",".","t","x","t">>,     content |-> SmallContent],
    [name |-> <<"/","w","/","e",".","j","p","g">>,     content |-> EmptyContent],
    [name |-> <<"/","w","/","o",".","j","p","g">>,     content |-> OverContent],
    [name |-> <<"/","w","/","d",".","t","m","p">>,     content |-> SmallContent],
    [name |-> <<"/","w","/",".","h",".","j","p","g">>, content |-> SmallContent],
    [name |-> <<"/","w","/","f",".","p","a","r","t">>, content |-> SmallContent] >>

\* Files of two other watched directories that bear the base name of the
\* first file of /w, each with bytes of its own.
SameNameTable == <<
    [name |-> <<"/","v","/","a",".","j","p","g">>,     content |-> SmallContent],
    [name |-> <<"/","u","/","a",".","j","p","g">>,     content |-> OtherContent] >>

PathTable == DirectoryTable \o SameNameTable

Paths == DOMAIN PathTable
PathName(p) == PathTable[p].name
Content(p)  == PathTable[p].content

\* os.path.getsize
FileSize(p) == Len(Content(p))

\* hashlib.md5(...).hexdigest(): a digest that identifies the content
\* (collisions are idealised away); never the empty string.
Md5(content) == <<Len(content)>> \o content

\* The extension lists a deployment may configure.
ExtensionConfigs == { <<>>,
                      << <<".","j","p","g">> >>,
                      << <<"J","P","G">> >> }

NoMedia == 0
NoTime  == -1
NoMd5   == <<>>
NoPath  == 0

ConfigNames == {"incoming", "archive"}

(***************************************************************************)
(* State.                                                                  *)
(***************************************************************************)
VARIABLES
    now,                  \* the clock: time.time() / timezone.now()
    fs,                   \* regular files present in the watched directory
    media,                \* the Media table: row i has primary key i
    ledger,               \* MediaAutoImportRecord rows, keyed by source_path
    \* --- configuration of the scan command (one watcher configuration)
    import_extensions,    \* config["extensions"]
    delete_after_import,  \* config["delete_after_import"]
    \* --- one invocation of the scan command
    cmd_pc,               \* where Command.process_config stands
    options,              \* --force, --dry-run
    config_name,          \* config["name"] of the configuration processed
    todo,                 \* files _iter_files has still to yield
    file_path,            \* the file of the current loop iteration
    record,               \* the in-memory MediaAutoImportRecord
    new_media,            \* the Media returned by _import_file
    \* --- configuration of the event-driven monitor
    watch_extensions,     \* settings.MEDIA_WATCH_EXTENSIONS
    move_after_import,    \* settings.MEDIA_WATCH_MOVE_AFTER_IMPORT
    processed_dir,        \* whether MediaFileHandler.processed_dir is set
    \* --- MediaFileHandler
    pending_files,        \* insertion-ordered dict path -> event time
    worker_pc,            \* where _process_pending_files stands
    current_time,         \* the worker's local current_time
    files_to_process,     \* the worker's local list
    wake_at,              \* end of the worker's time.sleep(1)
    processed,            \* files under processed_dir: [dir, name, stamp]
    \* --- history, read by the properties only
    burst_start,          \* time of the first event of the path's current burst
    last_event,           \* time of the most recent accepted event per path
    episode_settles,      \* settles of the path since its burst of events began
    \* --- a second run of the scan command, in a process of its own
    other,                \* the locals of the run that is not executing
    inserts,              \* history: rows inserted into the ledger table per path
    \* --- Command.handle of watch_media_directories
    configs,              \* MEDIA_AUTO_IMPORT_DIRECTORIES, one kind per entry
    once,                 \* options["once"]
    handle_pc,            \* where Command.handle stands
    config_index,         \* position of the for loop over configs
    visited,              \* history: configs process_config was called for, this pass
    passes,               \* passes over the configs that are complete
    sleep_until,          \* end of time.sleep(max(interval, 1))
    \* --- DirectoryMonitor
    watch_dirs,           \* MEDIA_WATCH_DIRS, one kind per entry
    watch_user_found,     \* whether MEDIA_WATCH_USER names a user
    relocation,           \* MEDIA_WATCH_MOVE_AFTER_IMPORT / MEDIA_WATCH_PROCESSED_DIR
    observers,            \* self.observers: the directories with a started observer
    handlers,             \* self.handlers: the handlers held, by number
    handler_running,      \* MediaFileHandler.running of every handler created
    running,              \* DirectoryMonitor.running
    caller_pc,            \* where the thread that calls the monitor stands
    stop_index,           \* stop(): position of the loop over self.handlers
    start_result,         \* what the last start() returned
    \* --- MediaFileHandler.lock and the thread that delivers the events
    lock,                 \* who holds self.lock
    event_pc,             \* where the callback stands
    event_path,           \* the callback's local file_path
    \* --- MediaFileHandler.stop
    stop_pc,              \* where stop() stands; self.running until it is called
    join_until,           \* end of worker_thread.join(timeout)
    \* --- history, read by the properties only
    entered_as_directory  \* whether the path's pending entry came from a directory event

vars == << now, fs, media, ledger, import_extensions, delete_after_import,
           cmd_pc, options, config_name, todo, file_path, record, new_media,
           watch_extensions, move_after_import, processed_dir,
           pending_files, worker_pc,
           current_time, files_to_process, wake_at, processed,
           burst_start, last_event, episode_settles, other, inserts,
           configs, once, handle_pc, config_index, visited, passes, sleep_until,
           watch_dirs, watch_user_found, relocation, observers, handlers,
           handler_running, running, caller_pc, stop_index, start_result,
           lock, event_pc, event_path, stop_pc, join_until,
           entered_as_directory >>

config_vars == << import_extensions, delete_after_import, watch_extensions,
                  move_after_import, processed_dir >>
cmd_vars    == << cmd_pc, options, config_name, todo, file_path, record,
                  new_media >>
handle_vars == << configs, once, handle_pc, config_index, visited, passes,
                  sleep_until >>
monitor_vars == << watch_dirs, watch_user_found, relocation, observers,
                   handlers, handler_running, running, caller_pc, stop_index,
                   start_result >>
lock_vars == << lock, event_pc, event_path >>
stop_vars == << stop_pc, join_until >>
handler_vars == << pending_files, worker_pc, current_time, files_to_process,
                   wake_at, burst_start, last_event, episode_settles >>

NoRecord == [config_name |-> "", media |-> NoMedia, md5sum |-> NoMd5,
             imported_at |-> NoTime, last_seen |-> NoTime]

\* The locals of a run of the scan command that has not begun a pass.
IdleRun == [cmd_pc |-> "idle", options |-> [force |-> FALSE, dry_run |-> FALSE],
            config_name |-> "", todo |-> {}, file_path |-> NoPath,
            record |-> NoRecord, new_media |-> NoMedia]

\* The directories a run may start with: every file alone, the two files
\* with identical bytes, and two files that differ in bytes and extension.
Directories == { {p} : p \in DOMAIN DirectoryTable } \cup { {1, 2}, {1, 3} }

InitCommon ==
    /\ now = 0
    /\ fs \in Directories
    /\ media = <<>>
    /\ ledger = << >>
    /\ cmd_pc = "idle"
    /\ options = [force |-> FALSE, dry_run |-> FALSE]
    /\ config_name = ""
    /\ todo = {}
    /\ file_path = NoPath
    /\ record = NoRecord
    /\ new_media = NoMedia
    /\ pending_files = <<>>
    /\ worker_pc = "loop"
    /\ current_time = 0
    /\ files_to_process = <<>>
    /\ wake_at = 0
    /\ processed = {}
    /\ burst_start = [p \in Paths |-> NoTime]
    /\ last_event = [p \in Paths |-> NoTime]
    /\ episode_settles = [p \in Paths |-> 0]
    /\ other = IdleRun
    /\ inserts = [p \in Paths |-> 0]
    /\ lock = "free"
    /\ event_pc = "idle"
    /\ event_path = NoPath
    /\ stop_pc = "running"
    /\ join_until = 0
    /\ entered_as_directory = [p \in Paths |-> FALSE]

\* Command.handle has not been entered.
HandleIdle ==
    /\ configs = <<>>
    /\ once = FALSE
    /\ handle_pc = "start"
    /\ config_index = 0
    /\ visited = <<>>
    /\ passes = 0
    /\ sleep_until = 0

\* DirectoryMonitor.__init__, with nothing configured.
MonitorIdle ==
    /\ watch_dirs = <<>>
    /\ watch_user_found = FALSE
    /\ relocation = "off"
    /\ observers = <<>>
    /\ handlers = <<>>
    /\ handler_running = <<>>
    /\ running = FALSE
    /\ caller_pc = "ready"
    /\ stop_index = 0
    /\ start_result = "none"

(***************************************************************************)
(* The clock.                                                              *)
(***************************************************************************)
\* The clock advances by one second, up to the horizon of the run.
TickTo(horizon) ==
    /\ now < horizon
    /\ now' = now + 1
    /\ UNCHANGED << fs, media, ledger, config_vars, lock_vars, stop_vars, entered_as_directory, handle_vars, monitor_vars, other, inserts, cmd_vars, handler_vars,
                    processed >>

\* Long enough for two runs, or two passes, to observe a file at different
\* times.
TwoScansHorizon == MaxTime - 2

\* Long enough for a path to settle and to be touched again afterwards.
EventHorizon == 2 * DebounceSeconds

\* Events are delivered while the path they touch can still settle.
LastEventTime == EventHorizon - DebounceSeconds

(***************************************************************************)
(* The Media table (files.models.Media, not part of the sources at hand).  *)
(***************************************************************************)
\* Media.objects.filter(md5sum=md5sum).first()
MediaWithMd5(md5sum) ==
    IF \E i \in DOMAIN media : media[i].md5sum = md5sum
    THEN CHOOSE i \in DOMAIN media :
            media[i].md5sum = md5sum /\ \A j \in DOMAIN media : media[j].md5sum = md5sum => i <= j
    ELSE NoMedia

\* Media.objects.create(media_file=...) followed by refresh_from_db(): the
\* row's checksum is computed from the file's bytes when the Media object is
\* initialised.  source and by record where the row came from.
CreateMedia(p) == [md5sum |-> Md5(Content(p)), source |-> p, by |-> "poll"]

\* Media(user=..., title=..., md5sum=md5sum) with media.save() in
\* _import_media_file.
HandlerMedia(p, md5sum) == [md5sum |-> md5sum, source |-> p, by |-> "event"]

\* The Media rows that came from path p.
MediaFrom(table, p) == { i \in DOMAIN table : table[i].source = p }

(***************************************************************************)
(* The scan command.                                                       *)
(***************************************************************************)
\* Command._normalise_extensions
NormaliseExtensions(extensions) ==
    { LStripDot(Lower(extensions[i])) : i \in DOMAIN extensions }

\* The extension test of process_config's loop: TRUE when the file is kept.
ScanAdmits(p) ==
    LET extensions == NormaliseExtensions(import_extensions)
    IN ~ (extensions # {} /\ LStripDot(Lower(Suffix(PathName(p)))) \notin extensions)

\* MediaAutoImportRecord.is_imported
IsImported(r) == r.media # NoMedia

\* The gate with the sense of --force inverted.
SkipsImportedWhenForced(r) == IsImported(r) /\ options.force

\* process_config: "if record.is_imported and not options['force']: continue"
SkipsImported(r) == IsImported(r) /\ ~ options.force

\* Command.handle for one invocation with --once: process_config begins.
CmdStart(force, dry_run, name) ==
    /\ cmd_pc = "idle"
    /\ options' = [force |-> force, dry_run |-> dry_run]
    /\ config_name' = name
    /\ todo' = fs
    /\ cmd_pc' = "iter"
    /\ UNCHANGED << now, fs, media, ledger, config_vars, lock_vars, stop_vars, entered_as_directory, handle_vars, monitor_vars, other, inserts, file_path, record,
                    new_media, handler_vars, processed >>

\* The row get_or_create inserts: source_path with the defaults, last_seen
\* set by auto_now.
CreatedRecord == [NoRecord EXCEPT !.config_name = config_name, !.last_seen = now]

\* The ledger table that holds nothing but the row of p.
UpsertedAlone(p) ==
    [q \in {p} |-> IF p \in DOMAIN ledger THEN ledger[p] ELSE CreatedRecord]

\* The ledger table after get_or_create for path p: source_path is unique,
\* so the row of p is inserted when absent and left as it is when present.
Upserted(p) ==
    [q \in DOMAIN ledger \cup {p} |->
        IF q = p /\ p \notin DOMAIN ledger THEN CreatedRecord ELSE ledger[q]]

\* A save that writes nothing to the row.
SavedRowStale(p) == ledger[p]

\* The row of p after record.save(update_fields=updates): last_seen is
\* written, config_name only when the record that was read bears another
\* name than the pass.
SavedRow(p) ==
    [ledger[p] EXCEPT !.last_seen = now,
                      !.config_name = IF record.config_name # config_name
                                      THEN config_name
                                      ELSE @]

\* The in-memory record after that save.
SavedRecord == [record EXCEPT !.last_seen = now, !.config_name = config_name]

\* The loop goes on to the next file; the locals of the iteration are dead.
NextIteration ==
    /\ cmd_pc' = "iter"
    /\ file_path' = NoPath
    /\ record' = NoRecord
    /\ new_media' = NoMedia

\* The tests of is_imported and of --dry-run on the in-memory record r of
\* the file p: the iteration ends, or goes on to _import_file.
Gate(p, r) ==
    IF SkipsImported(r)
    THEN NextIteration
    ELSE IF options.dry_run
    THEN NextIteration
    ELSE /\ cmd_pc' = "import"
         /\ file_path' = p
         /\ record' = r
         /\ new_media' = NoMedia

\* _iter_files yields the next path that is a regular file, and the
\* extension test of the loop is made.
ScanYield(p) ==
    /\ cmd_pc = "iter"
    /\ p \in todo
    /\ todo' = todo \ {p}
    /\ IF p \notin fs \/ ~ ScanAdmits(p)
       THEN NextIteration
       ELSE /\ cmd_pc' = "get"
            /\ file_path' = p
            /\ record' = NoRecord
            /\ new_media' = NoMedia
    /\ UNCHANGED << ledger, inserts, now, fs, media, config_vars, lock_vars, stop_vars, entered_as_directory, handle_vars, monitor_vars, other, options, config_name,
                    handler_vars, processed >>

\* MediaAutoImportRecord.objects.get_or_create: a row that exists is read
\* and the save of last_seen follows; a new row is inserted and the tests
\* of is_imported and --dry-run follow.
ScanGetOrCreate ==
    /\ cmd_pc = "get"
    /\ ledger' = Upserted(file_path)
    /\ IF file_path \in DOMAIN ledger
       THEN /\ cmd_pc' = "save"
            /\ record' = ledger[file_path]
            /\ UNCHANGED << inserts, file_path, new_media >>
       ELSE /\ inserts' = [inserts EXCEPT ![file_path] = @ + 1]
            /\ Gate(file_path, CreatedRecord)
    /\ UNCHANGED << todo, now, fs, media, config_vars, lock_vars, stop_vars, entered_as_directory, handle_vars, monitor_vars, other, options, config_name,
                    handler_vars, processed >>

\* record.save(update_fields=updates) of a row that existed, and the tests
\* of is_imported and --dry-run on the record that was read.
ScanSave ==
    /\ cmd_pc = "save"
    /\ ledger' = [ledger EXCEPT ![file_path] = SavedRow(file_path)]
    /\ Gate(file_path, SavedRecord)
    /\ UNCHANGED << todo, inserts, now, fs, media, config_vars, lock_vars, stop_vars, entered_as_directory, handle_vars, monitor_vars, other, options, config_name,
                    handler_vars, processed >>

\* _import_file succeeds: one Media row is created from the file.
ScanImportOk ==
    /\ cmd_pc = "import"
    /\ file_path \in fs
    /\ Len(media) < MaxMedia
    /\ media' = Append(media, CreateMedia(file_path))
    /\ new_media' = Len(media) + 1
    /\ cmd_pc' = "mark"
    /\ UNCHANGED << now, fs, ledger, config_vars, lock_vars, stop_vars, entered_as_directory, handle_vars, monitor_vars, other, inserts, options, config_name, todo,
                    file_path, record, handler_vars, processed >>

\* A failed import that stamps the ledger row all the same.
ScanImportFailMarks ==
    /\ cmd_pc = "import"
    /\ NextIteration
    /\ ledger' = [ledger EXCEPT ![file_path].imported_at = now]
    /\ UNCHANGED << now, fs, media, config_vars, lock_vars, stop_vars, entered_as_directory, handle_vars, monitor_vars, other, inserts, options,
                    config_name, todo, handler_vars, processed >>

\* A failed import that removes the source file all the same.
ScanImportFailDeletes ==
    /\ cmd_pc = "import"
    /\ NextIteration
    /\ fs' = fs \ {file_path}
    /\ UNCHANGED << now, media, ledger, config_vars, lock_vars, stop_vars, entered_as_directory, handle_vars, monitor_vars, other, inserts, options,
                    config_name, todo, handler_vars, processed >>

\* _import_file raises (the file cannot be opened, Media creation fails):
\* the transaction is rolled back and the loop continues.
ScanImportFail ==
    /\ cmd_pc = "import"
    /\ NextIteration
    /\ UNCHANGED << now, fs, media, ledger, config_vars, lock_vars, stop_vars, entered_as_directory, handle_vars, monitor_vars, other, inserts, options, config_name, todo,
                    handler_vars, processed >>

\* The in-memory record after lines 137-140.
MarkedRecord ==
    [record EXCEPT !.media = new_media,
                   !.imported_at = now,
                   !.md5sum = media[new_media].md5sum,
                   !.config_name = config_name,
                   !.last_seen = now]

\* record.save(update_fields=[media, imported_at, md5sum, config_name, last_seen])
ScanMark ==
    /\ cmd_pc = "mark"
    /\ ledger' = [ledger EXCEPT ![file_path] = MarkedRecord]
    /\ IF delete_after_import
       THEN /\ cmd_pc' = "delete"
            /\ record' = MarkedRecord
            /\ UNCHANGED << file_path, new_media >>
       ELSE NextIteration
    /\ UNCHANGED << now, fs, media, config_vars, lock_vars, stop_vars, entered_as_directory, handle_vars, monitor_vars, other, inserts, options, config_name, todo,
                    handler_vars, processed >>

\* helpers.rm_file(source_path)
ScanDelete ==
    /\ cmd_pc = "delete"
    /\ fs' = fs \ {file_path}
    /\ NextIteration
    /\ UNCHANGED << now, media, ledger, config_vars, lock_vars, stop_vars, entered_as_directory, handle_vars, monitor_vars, other, inserts, options, config_name, todo,
                    handler_vars, processed >>

\* The loop over the files is exhausted; with --once the command returns.
CmdFinish ==
    /\ cmd_pc = "iter"
    /\ todo = {}
    /\ cmd_pc' = "idle"
    /\ options' = [force |-> FALSE, dry_run |-> FALSE]
    /\ config_name' = ""
    /\ UNCHANGED << now, fs, media, ledger, config_vars, lock_vars, stop_vars, entered_as_directory, handle_vars, monitor_vars, other, inserts, todo,
                    file_path, record, new_media, handler_vars, processed >>

(***************************************************************************)
(* The event-driven handler.                                               *)
(***************************************************************************)
\* MediaFileHandler.__init__: self.extensions
HandlerExtensions == [i \in DOMAIN watch_extensions |-> Lower(watch_extensions[i])]

\* The filter without its test of the extension.
ShouldProcessFileAnyExtension(p) ==
    LET filename == Basename(PathName(p))
    IN ~ \/ StartsWith(filename, <<".">>)
         \/ EndsWith(filename, <<".","t","m","p">>)
         \/ EndsWith(filename, <<".","p","a","r","t">>)

\* MediaFileHandler._should_process_file
ShouldProcessFile(p) ==
    LET filename == Basename(PathName(p))
    IN IF \/ StartsWith(filename, <<".">>)
          \/ EndsWith(filename, <<".","t","m","p">>)
          \/ EndsWith(filename, <<".","p","a","r","t">>)
       THEN FALSE
       ELSE IF HandlerExtensions = <<>>
       THEN TRUE
       ELSE \E i \in DOMAIN HandlerExtensions :
               HandlerExtensions[i] = Lower(SplitExt(PathName(p)))

\* The position of path p in the pending dict, 0 when absent.
PendingIndex(p) ==
    IF \E i \in DOMAIN pending_files : pending_files[i].path = p
    THEN CHOOSE i \in DOMAIN pending_files : pending_files[i].path = p
    ELSE 0

\* The dict assignment that leaves the time of a present key alone, so that
\* the quiet period runs from the first event of a burst.
SetPendingFirst(p, t) ==
    IF PendingIndex(p) # 0
    THEN pending_files
    ELSE Append(pending_files, [path |-> p, time |-> t])

\* self.pending_files[file_path] = time.time(): a present key keeps its
\* place in the dict, a new key goes last.
SetPending(p, t) ==
    IF PendingIndex(p) # 0
    THEN [pending_files EXCEPT ![PendingIndex(p)].time = t]
    ELSE Append(pending_files, [path |-> p, time |-> t])

\* Whether an event for p now opens a new burst: it is the first, or it
\* comes DebounceSeconds or more after the previous one.
OpensBurst(p) ==
    last_event[p] = NoTime \/ now - last_event[p] >= DebounceSeconds

\* History of an accepted event.
NoteEvent(p) ==
    /\ last_event' = [last_event EXCEPT ![p] = now]
    /\ burst_start' = IF OpensBurst(p)
                      THEN [burst_start EXCEPT ![p] = now]
                      ELSE burst_start
    /\ episode_settles' = IF OpensBurst(p)
                          THEN [episode_settles EXCEPT ![p] = 0]
                          ELSE episode_settles

\* A callback that does not look at the kind of the event.
OnCreatedAnyKind(p, is_directory) ==
    /\ now <= LastEventTime
    /\ p \in fs
    /\ IF ~ ShouldProcessFile(p)
       THEN UNCHANGED << pending_files, burst_start, last_event, episode_settles,
                         entered_as_directory >>
       ELSE /\ pending_files' = SetPending(p, now)
            /\ NoteEvent(p)
            /\ entered_as_directory' =
                  [entered_as_directory EXCEPT ![p] = is_directory]
    /\ UNCHANGED << now, fs, media, ledger, config_vars, lock_vars, stop_vars, handle_vars, monitor_vars, other, inserts, cmd_vars, worker_pc,
                    current_time, files_to_process, wake_at, processed >>

\* MediaFileHandler.on_created
OnCreated(p, is_directory) ==
    /\ now <= LastEventTime
    /\ p \in fs
    /\ IF is_directory \/ ~ ShouldProcessFile(p)
       THEN UNCHANGED << pending_files, burst_start, last_event, episode_settles,
                         entered_as_directory >>
       ELSE /\ pending_files' = SetPending(p, now)
            /\ NoteEvent(p)
            /\ entered_as_directory' =
                  [entered_as_directory EXCEPT ![p] = is_directory]
    /\ UNCHANGED << now, fs, media, ledger, config_vars, lock_vars, stop_vars, handle_vars, monitor_vars, other, inserts, cmd_vars, worker_pc,
                    current_time, files_to_process, wake_at, processed >>

\* A callback that also writes the ledger row of the path.
OnModifiedUpserts(p, is_directory) ==
    /\ now <= LastEventTime
    /\ p \in fs
    /\ IF is_directory \/ ~ ShouldProcessFile(p)
       THEN UNCHANGED << pending_files, burst_start, last_event, episode_settles,
                         entered_as_directory >>
       ELSE /\ pending_files' = SetPending(p, now)
            /\ NoteEvent(p)
            /\ entered_as_directory' =
                  [entered_as_directory EXCEPT ![p] = is_directory]
    /\ ledger' = Upserted(p)
    /\ UNCHANGED << now, fs, media, config_vars, lock_vars, stop_vars, handle_vars, monitor_vars, other, inserts, cmd_vars, worker_pc,
                    current_time, files_to_process, wake_at, processed >>

\* MediaFileHandler.on_modified
OnModified(p, is_directory) ==
    /\ now <= LastEventTime
    /\ p \in fs
    /\ IF is_directory \/ ~ ShouldProcessFile(p)
       THEN UNCHANGED << pending_files, burst_start, last_event, episode_settles,
                         entered_as_directory >>
       ELSE /\ pending_files' = SetPending(p, now)
            /\ NoteEvent(p)
            /\ entered_as_directory' =
                  [entered_as_directory EXCEPT ![p] = is_directory]
    /\ UNCHANGED << now, fs, media, ledger, config_vars, lock_vars, stop_vars, handle_vars, monitor_vars, other, inserts, cmd_vars, worker_pc,
                    current_time, files_to_process, wake_at, processed >>

\* _process_pending_files: "while self.running" holds and
\* current_time = time.time()
WorkerReadTime ==
    /\ worker_pc = "loop"
    /\ stop_pc = "running"
    /\ current_time' = now
    /\ worker_pc' = "lock"
    /\ UNCHANGED << now, fs, media, ledger, config_vars, lock_vars, stop_vars, entered_as_directory, handle_vars, monitor_vars, other, inserts, cmd_vars, pending_files,
                    files_to_process, wake_at, burst_start, last_event,
                    episode_settles, processed >>

\* A worker that waits for twice the debounce window and longer.
SettledTooLate(entry) == current_time - entry.time > 2 * DebounceSeconds

\* Whether a pending entry has settled for the worker.
Settled(entry) == current_time - entry.time >= DebounceSeconds

\* _process_pending_files: the block under the lock.
WorkerDrain ==
    /\ worker_pc = "lock"
    /\ files_to_process' =
          LET due == SelectSeq(pending_files, Settled)
          IN [i \in DOMAIN due |-> due[i].path]
    /\ pending_files' = SelectSeq(pending_files, LAMBDA e : ~ Settled(e))
    /\ episode_settles' =
          [p \in Paths |->
              IF PendingIndex(p) # 0 /\ Settled(pending_files[PendingIndex(p)])
              THEN episode_settles[p] + 1
              ELSE episode_settles[p]]
    /\ worker_pc' = "process"
    /\ current_time' = 0    \* dead until the next pass of the loop
    /\ UNCHANGED << now, fs, media, ledger, config_vars, lock_vars, stop_vars, entered_as_directory, handle_vars, monitor_vars, other, inserts, cmd_vars,
                    wake_at, burst_start, last_event, processed >>

\* _move_processed_file: the name the file gets under processed_dir.
TargetOf(p, duplicate) ==
    LET dir   == IF duplicate THEN "duplicates" ELSE "imported"
        plain == [dir |-> dir, name |-> Basename(PathName(p)), stamp |-> NoTime]
    IN IF \E f \in processed : f = plain
       THEN [plain EXCEPT !.stamp = now]
       ELSE plain

\* _move_processed_file succeeded: the file left the watched directory.
MoveProcessedFile(p, duplicate) ==
    /\ fs' = fs \ {p}
    /\ processed' = processed \cup {TargetOf(p, duplicate)}

\* A handler that relocates whenever move_after_import is set.
RelocatesWithoutDir == move_after_import

\* _import_media_file: "if self.move_after_import and self.processed_dir"
Relocates == move_after_import /\ processed_dir

\* The file _import_media_file is at work on.
Importing == Head(files_to_process)

\* Where the worker stands inside _import_media_file.
ImportPcs == {"md5", "lookup", "save", "move", "move_duplicate"}

\* _import_media_file returns, by return or through its except clause, and
\* the for loop over files_to_process goes on.
ImportReturns ==
    /\ files_to_process' = Tail(files_to_process)
    /\ worker_pc' = "process"

\* _import_media_file is called for the next path of files_to_process: the
\* tests of os.path.exists, os.path.isfile and of the size.
ImportValidate ==
    /\ worker_pc = "process"
    /\ files_to_process # <<>>
    /\ IF \/ Importing \notin fs
          \/ FileSize(Importing) = 0
          \/ FileSize(Importing) > UploadMaxSize
       THEN ImportReturns
       ELSE worker_pc' = "md5" /\ UNCHANGED files_to_process
    /\ UNCHANGED << fs, media, processed, now, ledger, config_vars, lock_vars, stop_vars, entered_as_directory, handle_vars, monitor_vars, other, inserts, cmd_vars, pending_files,
                    current_time, wake_at, burst_start, last_event, episode_settles >>

\* _calculate_md5: the file is read; None is returned when it cannot be.
ImportChecksum(ok) ==
    /\ worker_pc = "md5"
    /\ IF Importing \notin fs \/ ~ ok
       THEN ImportReturns
       ELSE worker_pc' = "lookup" /\ UNCHANGED files_to_process
    /\ UNCHANGED << fs, media, processed, now, ledger, config_vars, lock_vars, stop_vars, entered_as_directory, handle_vars, monitor_vars, other, inserts, cmd_vars, pending_files,
                    current_time, wake_at, burst_start, last_event, episode_settles >>

\* Media.objects.filter(md5sum=md5sum).first() and the branch on it; a
\* query that raises is caught by the except clause of the import.
ImportLookup(ok) ==
    /\ worker_pc = "lookup"
    /\ IF ~ ok
       THEN ImportReturns
       ELSE IF MediaWithMd5(Md5(Content(Importing))) # NoMedia
       THEN IF Relocates
            THEN worker_pc' = "move_duplicate" /\ UNCHANGED files_to_process
            ELSE ImportReturns
       ELSE worker_pc' = "save" /\ UNCHANGED files_to_process
    /\ UNCHANGED << fs, media, processed, now, ledger, config_vars, lock_vars, stop_vars, entered_as_directory, handle_vars, monitor_vars, other, inserts, cmd_vars, pending_files,
                    current_time, wake_at, burst_start, last_event, episode_settles >>

\* The file is opened and media.save() is called; either may raise.
ImportSave(ok) ==
    /\ worker_pc = "save"
    /\ IF Importing \notin fs \/ ~ ok \/ Len(media) >= MaxMedia
       THEN ImportReturns /\ UNCHANGED media
       ELSE /\ media' = Append(media, HandlerMedia(Importing, Md5(Content(Importing))))
            /\ IF Relocates
               THEN worker_pc' = "move" /\ UNCHANGED files_to_process
               ELSE ImportReturns
    /\ UNCHANGED << fs, processed, now, ledger, config_vars, lock_vars, stop_vars, entered_as_directory, handle_vars, monitor_vars, other, inserts, cmd_vars, pending_files,
                    current_time, wake_at, burst_start, last_event, episode_settles >>

\* _move_processed_file; a move that raises leaves the file in place.
ImportMove(ok) ==
    /\ worker_pc \in {"move", "move_duplicate"}
    /\ IF Importing \in fs /\ ok
       THEN MoveProcessedFile(Importing, worker_pc = "move_duplicate")
       ELSE UNCHANGED << fs, processed >>
    /\ ImportReturns
    /\ UNCHANGED << media, now, ledger, config_vars, lock_vars, stop_vars, entered_as_directory, handle_vars, monitor_vars, other, inserts, cmd_vars, pending_files,
                    current_time, wake_at, burst_start, last_event, episode_settles >>

\* _process_pending_files: time.sleep(1) begins.
WorkerSleep ==
    /\ worker_pc = "process"
    /\ files_to_process = <<>>
    /\ wake_at' = now + 1
    /\ worker_pc' = "sleep"
    /\ UNCHANGED << now, fs, media, ledger, config_vars, lock_vars, stop_vars, entered_as_directory, handle_vars, monitor_vars, other, inserts, cmd_vars, pending_files,
                    current_time, files_to_process, burst_start, last_event,
                    episode_settles, processed >>

\* _process_pending_files: time.sleep(1) returns and the loop repeats.  The
\* last value of the clock stands for every later time.
WorkerWake(horizon) ==
    /\ worker_pc = "sleep"
    /\ now >= wake_at \/ now >= horizon
    /\ worker_pc' = "loop"
    /\ wake_at' = 0
    /\ UNCHANGED << now, fs, media, ledger, config_vars, lock_vars, stop_vars, entered_as_directory, handle_vars, monitor_vars, other, inserts, cmd_vars, pending_files,
                    current_time, files_to_process, burst_start,
                    last_event, episode_settles, processed >>

(***************************************************************************)
(* Specifications.                                                         *)
(***************************************************************************)
\* The scan command alone.
InitScan ==
    /\ InitCommon
    /\ HandleIdle
    /\ MonitorIdle
    /\ import_extensions \in ExtensionConfigs
    /\ delete_after_import \in BOOLEAN
    /\ watch_extensions = <<>>
    /\ move_after_import = FALSE
    /\ processed_dir = FALSE

NextScan ==
    \/ TickTo(MaxTime)
    \/ \E force \in BOOLEAN, dry_run \in BOOLEAN, name \in ConfigNames :
          CmdStart(force, dry_run, name)
    \/ \E p \in Paths : ScanYield(p)
    \/ ScanGetOrCreate
    \/ ScanSave
    \/ ScanImportOk
    \/ ScanImportFail
    \/ ScanMark
    \/ ScanDelete
    \/ CmdFinish

SpecScan == InitScan /\ [][NextScan]_vars

\* get_or_create or the save of last_seen raises (the database refuses the
\* write): the exception leaves the loop over the files and process_config.
ScanLedgerFault ==
    /\ cmd_pc \in {"get", "save"}
    /\ cmd_pc' = "raised"
    /\ file_path' = NoPath
    /\ record' = NoRecord
    /\ new_media' = NoMedia
    /\ UNCHANGED << now, fs, media, ledger, config_vars, lock_vars, stop_vars, entered_as_directory, handle_vars, monitor_vars, other, inserts, options,
                    config_name, todo, handler_vars, processed >>

\* The save of the imported record raises: the Media row is committed, the
\* ledger row is not written, the exception leaves process_config.
ScanMarkFault ==
    /\ cmd_pc = "mark"
    /\ cmd_pc' = "raised"
    /\ file_path' = NoPath
    /\ record' = NoRecord
    /\ new_media' = NoMedia
    /\ UNCHANGED << now, fs, media, ledger, config_vars, lock_vars, stop_vars, entered_as_directory, handle_vars, monitor_vars, other, inserts, options,
                    config_name, todo, handler_vars, processed >>

\* Command.handle catches the exception of process_config, logs it and goes
\* on; with --once the command returns.
HandleCatch ==
    /\ cmd_pc = "raised"
    /\ cmd_pc' = "idle"
    /\ options' = [force |-> FALSE, dry_run |-> FALSE]
    /\ config_name' = ""
    /\ todo' = {}
    /\ UNCHANGED << now, fs, media, ledger, config_vars, lock_vars, stop_vars, entered_as_directory, handle_vars, monitor_vars, other, inserts,
                    file_path, record, new_media, handler_vars, processed >>

\* The scan command, run without --dry-run under the name incoming, with a
\* database that may refuse a write of the ledger.
InitScanFaulty ==
    /\ InitCommon
    /\ HandleIdle
    /\ MonitorIdle
    /\ import_extensions \in ExtensionConfigs
    /\ delete_after_import \in BOOLEAN
    /\ watch_extensions = <<>>
    /\ move_after_import = FALSE
    /\ processed_dir = FALSE

NextScanFaulty ==
    \/ TickTo(TwoScansHorizon)
    \/ \E force \in BOOLEAN : CmdStart(force, FALSE, "incoming")
    \/ \E p \in Paths : ScanYield(p)
    \/ ScanGetOrCreate
    \/ ScanSave
    \/ ScanImportOk
    \/ ScanImportFail
    \/ ScanMark
    \/ ScanDelete
    \/ CmdFinish
    \/ ScanLedgerFault
    \/ ScanMarkFault
    \/ HandleCatch

SpecScanFaulty == InitScanFaulty /\ [][NextScanFaulty]_vars

\* The processor leaves the executing run of the scan command and takes up
\* the other one.
SwitchRun ==
    /\ cmd_pc' = other.cmd_pc
    /\ options' = other.options
    /\ config_name' = other.config_name
    /\ todo' = other.todo
    /\ file_path' = other.file_path
    /\ record' = other.record
    /\ new_media' = other.new_media
    /\ other' = [cmd_pc |-> cmd_pc, options |-> options,
                 config_name |-> config_name, todo |-> todo,
                 file_path |-> file_path, record |-> record,
                 new_media |-> new_media]
    /\ UNCHANGED << now, fs, media, ledger, config_vars, lock_vars, stop_vars, entered_as_directory, handle_vars, monitor_vars, inserts, handler_vars,
                    processed >>

\* Two runs of the scan command over the same directory, neither with
\* --force nor --dry-run, interleaved in every way.
InitTwoScans ==
    /\ InitCommon
    /\ HandleIdle
    /\ MonitorIdle
    /\ import_extensions = <<>>
    /\ delete_after_import \in BOOLEAN
    /\ watch_extensions = <<>>
    /\ move_after_import = FALSE
    /\ processed_dir = FALSE

NextTwoScans ==
    \/ TickTo(TwoScansHorizon)
    \/ \E name \in ConfigNames : CmdStart(FALSE, FALSE, name)
    \/ \E p \in Paths : ScanYield(p)
    \/ ScanGetOrCreate
    \/ ScanSave
    \/ ScanImportOk
    \/ ScanImportFail
    \/ ScanMark
    \/ ScanDelete
    \/ CmdFinish
    \/ SwitchRun

SpecTwoScans == InitTwoScans /\ [][NextTwoScans]_vars

\* The event-driven monitor alone.
InitEvent ==
    /\ InitCommon
    /\ HandleIdle
    /\ MonitorIdle
    /\ import_extensions = <<>>
    /\ delete_after_import = FALSE
    /\ watch_extensions \in ExtensionConfigs
    /\ move_after_import \in BOOLEAN
    /\ processed_dir \in BOOLEAN

NextEvent ==
    \/ TickTo(EventHorizon)
    \/ \E p \in Paths, is_directory \in BOOLEAN : OnCreated(p, is_directory)
    \/ \E p \in Paths, is_directory \in BOOLEAN : OnModified(p, is_directory)
    \/ WorkerReadTime
    \/ WorkerDrain
    \/ ImportValidate
    \/ \E ok \in BOOLEAN : ImportChecksum(ok)
    \/ \E ok \in BOOLEAN : ImportLookup(ok)
    \/ \E ok \in BOOLEAN : ImportSave(ok)
    \/ \E ok \in BOOLEAN : ImportMove(ok)
    \/ WorkerSleep
    \/ WorkerWake(EventHorizon)

SpecEvent == InitEvent /\ [][NextEvent]_vars

\* The worker is a thread of its own that the scheduler keeps running, and
\* the clock keeps advancing.
FairSpecEvent ==
    /\ SpecEvent
    /\ WF_vars(TickTo(EventHorizon))
    /\ WF_vars(WorkerReadTime)
    /\ WF_vars(WorkerDrain)
    /\ WF_vars(ImportValidate)
    /\ WF_vars(\E ok \in BOOLEAN : ImportChecksum(ok))
    /\ WF_vars(\E ok \in BOOLEAN : ImportLookup(ok))
    /\ WF_vars(\E ok \in BOOLEAN : ImportSave(ok))
    /\ WF_vars(\E ok \in BOOLEAN : ImportMove(ok))
    /\ WF_vars(WorkerSleep)
    /\ WF_vars(WorkerWake(EventHorizon))

\* The files that share a base name with a file of /w.
SameNamePaths == Paths \ DOMAIN DirectoryTable

\* A file is written under a watched directory; the observer will report
\* it to on_created.
FileArrives(p) ==
    /\ now <= LastEventTime
    /\ p \notin fs
    /\ fs' = fs \cup {p}
    /\ UNCHANGED << now, media, ledger, config_vars, lock_vars, stop_vars, entered_as_directory, handle_vars, monitor_vars, other, inserts, cmd_vars,
                    handler_vars, processed >>

\* The handler of a monitor that relocates what it has imported, watching
\* several directories into which files of the same base name are written.
InitRelocate ==
    /\ InitCommon
    /\ HandleIdle
    /\ MonitorIdle
    /\ fs = {1}
    /\ import_extensions = <<>>
    /\ delete_after_import = FALSE
    /\ watch_extensions = <<>>
    /\ move_after_import = TRUE
    /\ processed_dir = TRUE

NextRelocate ==
    \/ NextEvent
    \/ \E p \in SameNamePaths : FileArrives(p)

SpecRelocate == InitRelocate /\ [][NextRelocate]_vars

(***************************************************************************)
(* The handler with its lock: the callbacks and the worker step by step.   *)
(***************************************************************************)
\* on_created up to "with self.lock": directory events and filtered paths
\* return at once.
OnCreatedEnter(p, is_directory) ==
    /\ event_pc = "idle"
    /\ now <= LastEventTime
    /\ p \in fs
    /\ IF is_directory \/ ~ ShouldProcessFile(p)
       THEN UNCHANGED << event_pc, event_path >>
       ELSE event_pc' = "wait" /\ event_path' = p
    /\ UNCHANGED << now, fs, media, ledger, config_vars, stop_vars, handle_vars, monitor_vars, other, inserts, cmd_vars,
                    lock, handler_vars, entered_as_directory, processed >>

\* on_modified up to "with self.lock".
OnModifiedEnter(p, is_directory) ==
    /\ event_pc = "idle"
    /\ now <= LastEventTime
    /\ p \in fs
    /\ IF is_directory \/ ~ ShouldProcessFile(p)
       THEN UNCHANGED << event_pc, event_path >>
       ELSE event_pc' = "wait" /\ event_path' = p
    /\ UNCHANGED << now, fs, media, ledger, config_vars, stop_vars, handle_vars, monitor_vars, other, inserts, cmd_vars,
                    lock, handler_vars, entered_as_directory, processed >>

\* The callback enters "with self.lock".
CallbackAcquire ==
    /\ event_pc = "wait"
    /\ lock = "free"
    /\ lock' = "callback"
    /\ event_pc' = "locked"
    /\ UNCHANGED << now, fs, media, ledger, config_vars, stop_vars, handle_vars, monitor_vars, other, inserts, cmd_vars,
                    event_path, handler_vars, entered_as_directory, processed >>

\* The callback, inside the with block: the test of on_modified and
\* self.pending_files[file_path] = time.time().
CallbackStore ==
    /\ event_pc = "locked"
    /\ pending_files' = SetPending(event_path, now)
    /\ NoteEvent(event_path)
    /\ entered_as_directory' = [entered_as_directory EXCEPT ![event_path] = FALSE]
    /\ event_pc' = "stored"
    /\ UNCHANGED << now, fs, media, ledger, config_vars, stop_vars, handle_vars, monitor_vars, other, inserts, cmd_vars,
                    lock, event_path, worker_pc, current_time, files_to_process,
                    wake_at, processed >>

\* The callback leaves the with block and returns.
CallbackRelease ==
    /\ event_pc = "stored"
    /\ lock' = "free"
    /\ event_pc' = "idle"
    /\ event_path' = NoPath
    /\ UNCHANGED << now, fs, media, ledger, config_vars, stop_vars, handle_vars, monitor_vars, other, inserts, cmd_vars,
                    handler_vars, entered_as_directory, processed >>

\* The worker enters "with self.lock".
WorkerAcquire ==
    /\ worker_pc = "lock"
    /\ lock = "free"
    /\ lock' = "worker"
    /\ worker_pc' = "locked"
    /\ UNCHANGED << now, fs, media, ledger, config_vars, stop_vars, handle_vars, monitor_vars, other, inserts, cmd_vars,
                    event_pc, event_path, pending_files, current_time,
                    files_to_process, wake_at, burst_start, last_event,
                    episode_settles, entered_as_directory, processed >>

\* The worker, inside the with block: the loop over the pending entries.
WorkerDrainLocked ==
    /\ worker_pc = "locked"
    /\ files_to_process' =
          LET due == SelectSeq(pending_files, Settled)
          IN [i \in DOMAIN due |-> due[i].path]
    /\ pending_files' = SelectSeq(pending_files, LAMBDA e : ~ Settled(e))
    /\ episode_settles' =
          [p \in Paths |->
              IF PendingIndex(p) # 0 /\ Settled(pending_files[PendingIndex(p)])
              THEN episode_settles[p] + 1
              ELSE episode_settles[p]]
    /\ worker_pc' = "drained"
    /\ current_time' = 0
    /\ UNCHANGED << now, fs, media, ledger, config_vars, stop_vars, handle_vars, monitor_vars, other, inserts, cmd_vars,
                    lock_vars, wake_at, burst_start, last_event,
                    entered_as_directory, processed >>

\* A worker that goes on to the imports with the lock still held.
WorkerKeepsLock ==
    /\ worker_pc = "drained"
    /\ worker_pc' = "process"
    /\ UNCHANGED << now, fs, media, ledger, config_vars, stop_vars, handle_vars, monitor_vars, other, inserts, cmd_vars,
                    lock_vars, pending_files, current_time,
                    files_to_process, wake_at, burst_start, last_event,
                    episode_settles, entered_as_directory, processed >>

\* The worker leaves the with block, before "for file_path in
\* files_to_process".
WorkerRelease ==
    /\ worker_pc = "drained"
    /\ lock' = "free"
    /\ worker_pc' = "process"
    /\ UNCHANGED << now, fs, media, ledger, config_vars, stop_vars, handle_vars, monitor_vars, other, inserts, cmd_vars,
                    event_pc, event_path, pending_files, current_time,
                    files_to_process, wake_at, burst_start, last_event,
                    episode_settles, entered_as_directory, processed >>

\* The handler of a monitor, with or without relocation of the files, with
\* the thread of its observer and its worker thread interleaved statement
\* by statement.
InitLock ==
    /\ InitCommon
    /\ HandleIdle
    /\ MonitorIdle
    /\ import_extensions = <<>>
    /\ delete_after_import = FALSE
    /\ watch_extensions \in ExtensionConfigs
    /\ move_after_import \in BOOLEAN
    /\ processed_dir = TRUE

NextLock ==
    \/ TickTo(EventHorizon)
    \/ \E p \in Paths, is_directory \in BOOLEAN : OnCreatedEnter(p, is_directory)
    \/ \E p \in Paths, is_directory \in BOOLEAN : OnModifiedEnter(p, is_directory)
    \/ CallbackAcquire
    \/ CallbackStore
    \/ CallbackRelease
    \/ WorkerReadTime
    \/ WorkerAcquire
    \/ WorkerDrainLocked
    \/ WorkerRelease
    \/ ImportValidate
    \/ \E ok \in BOOLEAN : ImportChecksum(ok)
    \/ \E ok \in BOOLEAN : ImportLookup(ok)
    \/ \E ok \in BOOLEAN : ImportSave(ok)
    \/ \E ok \in BOOLEAN : ImportMove(ok)
    \/ WorkerSleep
    \/ WorkerWake(EventHorizon)

SpecLock == InitLock /\ [][NextLock]_vars

(***************************************************************************)
(* MediaFileHandler.stop and the end of the worker.                        *)
(***************************************************************************)
\* stop: self.running = False, and worker_thread.join(timeout=5) begins.
HandlerStopSignal ==
    /\ stop_pc = "running"
    /\ stop_pc' = "joining"
    /\ join_until' = now + JoinTimeout
    /\ UNCHANGED << now, fs, media, ledger, config_vars, lock_vars, handle_vars, monitor_vars, other, inserts, cmd_vars,
                    handler_vars, entered_as_directory, processed >>

\* stop: join returns, because the worker thread has ended or because the
\* timeout has run out, and stop returns.
HandlerStopReturn ==
    /\ stop_pc = "joining"
    /\ worker_pc = "exited" \/ now >= join_until
    /\ stop_pc' = "returned"
    /\ join_until' = 0
    /\ UNCHANGED << now, fs, media, ledger, config_vars, lock_vars, handle_vars, monitor_vars, other, inserts, cmd_vars,
                    handler_vars, entered_as_directory, processed >>

\* _process_pending_files: "while self.running" fails and the thread ends.
WorkerExit ==
    /\ worker_pc = "loop"
    /\ stop_pc # "running"
    /\ worker_pc' = "exited"
    /\ UNCHANGED << now, fs, media, ledger, config_vars, lock_vars, handle_vars, monitor_vars, other, inserts, cmd_vars,
                    stop_vars, pending_files, current_time, files_to_process,
                    wake_at, burst_start, last_event, episode_settles,
                    entered_as_directory, processed >>

\* The handler of a monitor that accepts every extension, with or without
\* relocation of the files, stopped at any moment.
InitStop ==
    /\ InitCommon
    /\ HandleIdle
    /\ MonitorIdle
    /\ import_extensions = <<>>
    /\ delete_after_import = FALSE
    /\ watch_extensions = <<>>
    /\ move_after_import \in BOOLEAN
    /\ processed_dir = TRUE

NextStop ==
    \/ NextEvent
    \/ HandlerStopSignal
    \/ HandlerStopReturn
    \/ WorkerExit

SpecStop == InitStop /\ [][NextStop]_vars

\* Both strategies at work on one file, which the scan command leaves
\* where it is and the handler may relocate, under one allow-list and one
\* watcher configuration; the scan command and the monitor are interleaved
\* in every way.
Init ==
    /\ InitCommon
    /\ HandleIdle
    /\ MonitorIdle
    /\ Cardinality(fs) = 1
    /\ import_extensions \in ExtensionConfigs
    /\ watch_extensions = import_extensions
    /\ delete_after_import = FALSE
    /\ move_after_import \in BOOLEAN
    /\ processed_dir = TRUE

Next ==
    \/ TickTo(DebounceSeconds)
    \/ \E force \in BOOLEAN, dry_run \in BOOLEAN :
          CmdStart(force, dry_run, "incoming")
    \/ \E p \in Paths : ScanYield(p)
    \/ ScanGetOrCreate
    \/ ScanSave
    \/ ScanImportOk
    \/ ScanImportFail
    \/ ScanMark
    \/ CmdFinish
    \/ \E p \in Paths, is_directory \in BOOLEAN : OnCreated(p, is_directory)
    \/ \E p \in Paths, is_directory \in BOOLEAN : OnModified(p, is_directory)
    \/ WorkerReadTime
    \/ WorkerDrain
    \/ ImportValidate
    \/ \E ok \in BOOLEAN : ImportChecksum(ok)
    \/ \E ok \in BOOLEAN : ImportLookup(ok)
    \/ \E ok \in BOOLEAN : ImportSave(ok)
    \/ \E ok \in BOOLEAN : ImportMove(ok)
    \/ WorkerSleep
    \/ WorkerWake(DebounceSeconds)

Spec == Init /\ [][Next]_vars

(***************************************************************************)
(* Command.handle: the loop over the configured directories.               *)
(***************************************************************************)
\* What an entry of MEDIA_AUTO_IMPORT_DIRECTORIES may be: in order, without
\* a 'path' key, naming no existing directory, naming no known user.
ConfigKinds == {"ok", "no_path", "no_dir", "no_user"}

ConfigLists == UNION { [1..n -> ConfigKinds] : n \in 0..MaxConfigs }

\* process_config up to the loop over the files: CommandError is raised
\* for a config without 'path', without its directory, without its user.
RaisesCommandError(config) == config \in {"no_path", "no_dir", "no_user"}

HandleHorizon == MaxPasses * MinInterval

\* Command.handle up to the while loop.
HandleEnter ==
    /\ handle_pc = "start"
    /\ IF configs = <<>>
       THEN handle_pc' = "done" /\ UNCHANGED config_index
       ELSE handle_pc' = "loop" /\ config_index' = 1
    /\ UNCHANGED << now, fs, media, ledger, config_vars, lock_vars, stop_vars, entered_as_directory, cmd_vars, other, inserts,
                    configs, once, visited, passes, sleep_until, monitor_vars,
                    handler_vars, processed >>

\* process_config is called for the next config: it raises CommandError,
\* which handle raises again, or it begins the loop over the files.
HandleProcessConfig ==
    /\ handle_pc = "loop"
    /\ config_index <= Len(configs)
    /\ visited' = Append(visited, config_index)
    /\ IF RaisesCommandError(configs[config_index])
       THEN /\ handle_pc' = "failed"
            /\ UNCHANGED cmd_vars
       ELSE /\ handle_pc' = "config"
            /\ cmd_pc' = "iter"
            /\ options' = [force |-> FALSE, dry_run |-> FALSE]
            /\ config_name' = "incoming"
            /\ todo' = fs
            /\ UNCHANGED << file_path, record, new_media >>
    /\ UNCHANGED << now, fs, media, ledger, config_vars, lock_vars, stop_vars, entered_as_directory, other, inserts,
                    configs, once, config_index, passes, sleep_until,
                    monitor_vars, handler_vars, processed >>

\* process_config returns: the for loop goes on to the next config.
HandleConfigDone ==
    /\ handle_pc = "config"
    /\ cmd_pc = "iter"
    /\ todo = {}
    /\ cmd_pc' = "idle"
    /\ config_name' = ""
    /\ config_index' = config_index + 1
    /\ handle_pc' = "loop"
    /\ UNCHANGED << now, fs, media, ledger, config_vars, lock_vars, stop_vars, entered_as_directory, other, inserts, options,
                    todo, file_path, record, new_media, configs, once, visited,
                    passes, sleep_until, monitor_vars, handler_vars, processed >>

\* The for loop is exhausted: with --once the while loop is left, without
\* it time.sleep(max(interval, 1)) begins.
HandlePassDone ==
    /\ handle_pc = "loop"
    /\ config_index > Len(configs)
    /\ passes' = passes + 1
    /\ IF once
       THEN handle_pc' = "done" /\ UNCHANGED sleep_until
       ELSE handle_pc' = "sleep" /\ sleep_until' = now + MinInterval
    /\ UNCHANGED << now, fs, media, ledger, config_vars, lock_vars, stop_vars, entered_as_directory, cmd_vars, other, inserts,
                    configs, once, config_index, visited, monitor_vars,
                    handler_vars, processed >>

\* time.sleep returns and the next pass begins.  The last value of the
\* clock stands for every later time.
HandleWake ==
    /\ handle_pc = "sleep"
    /\ passes < MaxPasses
    /\ now >= sleep_until \/ now >= HandleHorizon
    /\ handle_pc' = "loop"
    /\ config_index' = 1
    /\ visited' = <<>>
    /\ sleep_until' = 0
    /\ UNCHANGED << now, fs, media, ledger, config_vars, lock_vars, stop_vars, entered_as_directory, cmd_vars, other, inserts,
                    configs, once, passes, monitor_vars, handler_vars,
                    processed >>

\* KeyboardInterrupt inside the try block: the command reports it and
\* returns, whatever it was doing.
HandleInterrupt ==
    /\ handle_pc \in {"loop", "config", "sleep"}
    /\ handle_pc' = "interrupted"
    /\ cmd_pc' = "idle"
    /\ config_name' = ""
    /\ todo' = {}
    /\ file_path' = NoPath
    /\ record' = NoRecord
    /\ new_media' = NoMedia
    /\ sleep_until' = 0
    /\ UNCHANGED << now, fs, media, ledger, config_vars, lock_vars, stop_vars, entered_as_directory, other, inserts, options,
                    configs, once, config_index, visited, passes,
                    monitor_vars, handler_vars, processed >>

\* One run of the command over a directory holding one file.
InitHandle ==
    /\ InitCommon
    /\ MonitorIdle
    /\ fs = {1}
    /\ import_extensions = <<>>
    /\ delete_after_import = FALSE
    /\ watch_extensions = <<>>
    /\ move_after_import = FALSE
    /\ processed_dir = FALSE
    /\ configs \in ConfigLists
    /\ once \in BOOLEAN
    /\ handle_pc = "start"
    /\ config_index = 0
    /\ visited = <<>>
    /\ passes = 0
    /\ sleep_until = 0

NextHandle ==
    \/ TickTo(HandleHorizon)
    \/ HandleEnter
    \/ HandleProcessConfig
    \/ \E p \in Paths : ScanYield(p)
    \/ ScanGetOrCreate
    \/ ScanSave
    \/ ScanImportOk
    \/ ScanImportFail
    \/ ScanMark
    \/ HandleConfigDone
    \/ HandlePassDone
    \/ HandleWake
    \/ HandleInterrupt

SpecHandle == InitHandle /\ [][NextHandle]_vars

(***************************************************************************)
(* DirectoryMonitor.                                                       *)
(***************************************************************************)
\* What an entry of MEDIA_WATCH_DIRS may be: a readable directory, a
\* readable directory whose observer cannot be started, a path that does
\* not exist, a path that is no directory, a directory that is not readable.
DirKinds == {"ok", "unwatchable", "missing", "file", "unreadable"}

DirLists == UNION { [1..n -> DirKinds] : n \in 0..MaxConfigs }

\* MEDIA_WATCH_MOVE_AFTER_IMPORT off; on without MEDIA_WATCH_PROCESSED_DIR;
\* on with a processed directory that cannot be created; on with one that
\* can.
Relocations == {"off", "unset", "uncreatable", "ok"}

\* The subsequence of the positions 1..n of dirs whose entry is of one of
\* the kinds.
RECURSIVE PositionsOf(_, _, _)
PositionsOf(dirs, kinds, n) ==
    IF n = 0 THEN <<>>
    ELSE IF dirs[n] \in kinds
    THEN Append(PositionsOf(dirs, kinds, n - 1), n)
    ELSE PositionsOf(dirs, kinds, n - 1)

\* Every configured directory, valid or not.
AllDirs(dirs) == [i \in 1..Len(dirs) |-> i]

\* start: valid_dirs, the directories that exist, are directories and are
\* readable.
ValidDirs(dirs) == PositionsOf(dirs, {"ok", "unwatchable"}, Len(dirs))

\* start: the valid directories whose observer.start() does not raise.
StartedDirs(dirs) == PositionsOf(dirs, {"ok"}, Len(dirs))

\* Whether a call of the monitor may begin: the caller is in no other call.
Callable == caller_pc \in {"ready", "start_returned", "stop_returned",
                           "wait_returned"}

\* DirectoryMonitor.start, in whatever state the monitor is: the handler
\* and the observers it creates are added to those the monitor holds.
Start ==
    /\ Callable
    /\ Len(handler_running) < MaxStarts
    /\ caller_pc' = "start_returned"
    /\ IF \/ watch_dirs = <<>>
          \/ ~ watch_user_found
          \/ ValidDirs(watch_dirs) = <<>>
          \/ relocation \in {"unset", "uncreatable"}
       THEN /\ start_result' = "failed"
            /\ UNCHANGED << observers, handlers, handler_running, running >>
       ELSE /\ handler_running' = Append(handler_running, TRUE)
            /\ handlers' = Append(handlers, Len(handler_running) + 1)
            /\ observers' = observers \o StartedDirs(watch_dirs)
            /\ IF observers \o StartedDirs(watch_dirs) = <<>>
               THEN start_result' = "failed" /\ UNCHANGED running
               ELSE start_result' = "ok" /\ running' = TRUE
    /\ UNCHANGED << now, fs, media, ledger, config_vars, lock_vars, stop_vars, entered_as_directory, cmd_vars, other, inserts,
                    handle_vars, watch_dirs, watch_user_found, relocation, stop_index,
                    handler_vars, processed >>

\* A stop that leaves the handlers as they are.
HandlersUntouched == handler_running

\* handler.stop() for the handler the loop of stop() has come to:
\* MediaFileHandler.stop sets its running to False and waits for the
\* worker thread, for five seconds at most.
StoppedHandlers ==
    [h \in DOMAIN handler_running |->
        IF h = handlers[stop_index] THEN FALSE ELSE handler_running[h]]

\* DirectoryMonitor.stop is called.
Stop ==
    /\ Callable
    /\ caller_pc' = "stop_handlers"
    /\ stop_index' = 1
    /\ UNCHANGED << now, fs, media, ledger, config_vars, lock_vars, stop_vars, entered_as_directory, cmd_vars, other, inserts,
                    handle_vars, watch_dirs, watch_user_found, relocation,
                    observers, handlers, handler_running, running,
                    start_result, handler_vars, processed >>

\* stop: one pass of "for handler in self.handlers: handler.stop()".
StopHandler ==
    /\ caller_pc \in {"stop_handlers", "wait_stop_handlers"}
    /\ stop_index <= Len(handlers)
    /\ handler_running' = StoppedHandlers
    /\ stop_index' = stop_index + 1
    /\ UNCHANGED << now, fs, media, ledger, config_vars, lock_vars, stop_vars, entered_as_directory, cmd_vars, other, inserts,
                    handle_vars, watch_dirs, watch_user_found, relocation,
                    observers, handlers, running, caller_pc,
                    start_result, handler_vars, processed >>

\* stop: the loop over the handlers is done; every observer is stopped
\* and joined.
StopObservers ==
    /\ caller_pc \in {"stop_handlers", "wait_stop_handlers"}
    /\ stop_index > Len(handlers)
    /\ caller_pc' = IF caller_pc = "stop_handlers"
                    THEN "stop_observers"
                    ELSE "wait_stop_observers"
    /\ stop_index' = 0
    /\ UNCHANGED << now, fs, media, ledger, config_vars, lock_vars, stop_vars, entered_as_directory, cmd_vars, other, inserts,
                    handle_vars, watch_dirs, watch_user_found, relocation,
                    observers, handlers, handler_running, running,
                    start_result, handler_vars, processed >>

\* stop: both lists are cleared, running is set to False, and stop
\* returns; a stop called by wait returns from wait.
StopClear ==
    /\ caller_pc \in {"stop_observers", "wait_stop_observers"}
    /\ observers' = <<>>
    /\ handlers' = <<>>
    /\ running' = FALSE
    /\ caller_pc' = IF caller_pc = "stop_observers"
                    THEN "stop_returned"
                    ELSE "wait_returned"
    /\ UNCHANGED << now, fs, media, ledger, config_vars, lock_vars, stop_vars, entered_as_directory, cmd_vars, other, inserts,
                    handle_vars, watch_dirs, watch_user_found, relocation,
                    handler_running, stop_index,
                    start_result, handler_vars, processed >>

\* DirectoryMonitor.wait is entered.
WaitEnter ==
    /\ Callable
    /\ caller_pc' = "waiting"
    /\ UNCHANGED << now, fs, media, ledger, config_vars, lock_vars, stop_vars, entered_as_directory, cmd_vars, other, inserts,
                    handle_vars, watch_dirs, watch_user_found, relocation,
                    observers, handlers, handler_running, running, stop_index,
                    start_result, handler_vars, processed >>

\* A loop that ends whether or not the monitor is running.
WaitLeavesAlways == TRUE

\* The test of "while self.running" that ends the loop.
WaitLeaves == ~ running

\* wait: the loop ends and wait returns.
WaitPoll ==
    /\ caller_pc = "waiting"
    /\ WaitLeaves
    /\ caller_pc' = "wait_returned"
    /\ UNCHANGED << now, fs, media, ledger, config_vars, lock_vars, stop_vars, entered_as_directory, cmd_vars, other, inserts,
                    handle_vars, watch_dirs, watch_user_found, relocation,
                    observers, handlers, handler_running, running, stop_index,
                    start_result, handler_vars, processed >>

\* wait: KeyboardInterrupt in the loop; self.stop() is called.
WaitInterrupt ==
    /\ caller_pc = "waiting"
    /\ caller_pc' = "wait_stop_handlers"
    /\ stop_index' = 1
    /\ UNCHANGED << now, fs, media, ledger, config_vars, lock_vars, stop_vars, entered_as_directory, cmd_vars, other, inserts,
                    handle_vars, watch_dirs, watch_user_found, relocation,
                    observers, handlers, handler_running, running,
                    start_result, handler_vars, processed >>

InitMonitor ==
    /\ InitCommon
    /\ HandleIdle
    /\ fs = {1}
    /\ import_extensions = <<>>
    /\ delete_after_import = FALSE
    /\ watch_extensions = <<>>
    /\ watch_dirs \in DirLists
    /\ watch_user_found \in BOOLEAN
    /\ relocation \in Relocations
    /\ move_after_import = (relocation # "off")
    /\ processed_dir = (relocation \in {"uncreatable", "ok"})
    /\ observers = <<>>
    /\ handlers = <<>>
    /\ handler_running = <<>>
    /\ running = FALSE
    /\ caller_pc = "ready"
    /\ stop_index = 0
    /\ start_result = "none"

NextMonitor ==
    \/ Start
    \/ Stop
    \/ StopHandler
    \/ StopObservers
    \/ StopClear
    \/ WaitEnter
    \/ WaitPoll
    \/ WaitInterrupt

SpecMonitor == InitMonitor /\ [][NextMonitor]_vars

(***************************************************************************)
(* Properties.                                                             *)
(***************************************************************************)
\* C1: in a scan pass run without --force, a path whose ledger row already
\* references a Media row gets no further Media row, and its ledger row keeps
\* referencing the Media row of the first import.
C1_ScanIdempotent ==
    [][\A p \in DOMAIN ledger :
          (IsImported(ledger[p]) /\ ~ options.force) =>
             /\ p \in DOMAIN ledger'
             /\ ledger'[p].media = ledger[p].media
             /\ MediaFrom(media', p) = MediaFrom(media, p)]_vars

\* A pass without --force has gone over a file that an earlier pass
\* imported: the file was seen again after its import, and it still has the
\* one Media row.
C1_Witness ==
    \E p \in DOMAIN ledger :
       /\ cmd_pc = "iter"
       /\ ~ options.force
       /\ ~ options.dry_run
       /\ p \in fs \ todo
       /\ IsImported(ledger[p])
       /\ ledger[p].last_seen > ledger[p].imported_at
       /\ Cardinality(MediaFrom(media, p)) = 1

\* C2: two distinct source paths that hold identical bytes never both have
\* a Media row: the second one is recognised as a duplicate of the first.
C2_OneMediaPerContent ==
    \A i, j \in DOMAIN media :
       (media[i].source # media[j].source) =>
          Content(media[i].source) # Content(media[j].source)

\* C3: whenever the import of a path begins, the most recent event for the
\* path is at least the debounce window old, events that arrived after the
\* path was taken from the pending set included.
C3_NoImportBeforeQuiet ==
    [][(/\ worker_pc = "process"
        /\ files_to_process # <<>>
        /\ \/ worker_pc' # "process"
           \/ files_to_process' # files_to_process) =>
           now - last_event[Importing] >= DebounceSeconds]_vars

\* C4: a burst of events for one path, each less than the debounce window
\* after the one before, leads to exactly one settle of the path: the path
\* is taken from the pending set at most once per burst, only when the last
\* event of the burst is at least the debounce window old, and a pending
\* path is always taken in the end.
C4_BurstSettlesOnce ==
    /\ [](\A p \in Paths : episode_settles[p] <= 1)
    /\ [][(worker_pc = "lock" /\ worker_pc' = "process") =>
             \A i \in DOMAIN files_to_process' :
                /\ last_event[files_to_process'[i]] # NoTime
                /\ now - last_event[files_to_process'[i]] >= DebounceSeconds]_vars
    /\ \A p \in Paths : (PendingIndex(p) # 0) ~> (PendingIndex(p) = 0)

\* A burst of more than one event for a path has settled once and the
\* import of the path has been called.
C4_Witness ==
    \E p \in Paths :
       /\ burst_start[p] # NoTime
       /\ burst_start[p] < last_event[p]
       /\ episode_settles[p] = 1
       /\ PendingIndex(p) = 0
       /\ \A i \in DOMAIN files_to_process : files_to_process[i] # p
       /\ \E i \in DOMAIN media : media[i].source = p /\ media[i].by = "event"

\* C5: once a ledger row references a Media row, no later scan pass, with
\* or without --force, changes that reference or clears the row's checksum
\* or import time.
C5_LedgerWriteOnce ==
    [][\A p \in DOMAIN ledger :
          IsImported(ledger[p]) =>
             /\ p \in DOMAIN ledger'
             /\ ledger'[p].media = ledger[p].media
             /\ ledger'[p].md5sum # NoMd5
             /\ ledger'[p].imported_at # NoTime]_vars

\* C6: a pass run with --dry-run writes nothing: no Media row and no ledger
\* row is created or changed, and no source file is moved or deleted.
C6_DryRunWritesNothing ==
    [][options.dry_run =>
          /\ media' = media
          /\ ledger' = ledger
          /\ fs' = fs
          /\ processed' = processed]_vars

\* C7: a pass run with --force creates no Media row for a path whose
\* unchanged bytes an existing Media row already holds.
C7_ForceKeepsDedup ==
    [][(options.force /\ Len(media') > Len(media)) =>
          \A i \in DOMAIN media :
             media[i].source # media'[Len(media')].source]_vars

\* C8: no Media row is ever created from a file of zero bytes or from a
\* file larger than the upload ceiling.
C8_SizeBounds ==
    \A i \in DOMAIN media :
       /\ FileSize(media[i].source) > 0
       /\ FileSize(media[i].source) <= UploadMaxSize

\* Whether the extension of p, compared without regard to case or to a
\* leading dot, is one of the listed extensions.
ListedExtension(p, list) ==
    \E i \in DOMAIN list :
       LStripDot(Lower(list[i])) = LStripDot(Lower(SplitExt(PathName(p))))

\* The allow-list of the strategy that created a Media row.
AllowListOf(row) ==
    IF row.by = "poll" THEN import_extensions ELSE watch_extensions

\* Under a non-empty allow-list neither strategy creates a Media row from a
\* file whose extension is not listed.
UnlistedNeverImported ==
    \A i \in DOMAIN media :
       AllowListOf(media[i]) # <<>> =>
          ListedExtension(media[i].source, AllowListOf(media[i]))

\* The names the handler drops whatever the allow-list: dotfiles and names
\* ending in .tmp or .part.
ExcludedName(p) ==
    LET filename == Basename(PathName(p))
    IN \/ Head(filename) = "."
       \/ SubSeq(filename, Len(filename) - 3, Len(filename)) = <<".","t","m","p">>
       \/ SubSeq(filename, Len(filename) - 4, Len(filename)) = <<".","p","a","r","t">>

\* C9 as stated: under a non-empty allow-list a file whose extension is not
\* listed (case ignored) is never imported by either strategy, and an empty
\* allow-list admits every file to both strategies.
C9_EmptyListAdmitsAll ==
    /\ UnlistedNeverImported
    /\ import_extensions = <<>> => \A p \in Paths : ScanAdmits(p)
    /\ watch_extensions = <<>> => \A p \in Paths : ShouldProcessFile(p)

\* C9: under a non-empty allow-list a file whose extension is not listed
\* (case ignored) is never imported by either strategy; an empty allow-list
\* admits every file to the scan, and to the handler every file but
\* dotfiles and names ending in .tmp or .part.
C9_ExtensionFilter ==
    /\ UnlistedNeverImported
    /\ import_extensions = <<>> => \A p \in Paths : ScanAdmits(p)
    /\ watch_extensions = <<>> =>
          \A p \in Paths : ShouldProcessFile(p) <=> ~ ExcludedName(p)

\* Under a non-empty allow-list a scan pass has gone over a file whose
\* extension is not listed, the file has had the time to settle in the
\* handler, and no Media row exists.
C9_Witness ==
    \E p \in fs :
       /\ import_extensions # <<>>
       /\ watch_extensions # <<>>
       /\ ~ ListedExtension(p, import_extensions)
       /\ cmd_pc = "idle"
       /\ now >= DebounceSeconds
       /\ worker_pc = "sleep"
       /\ media = <<>>

\* C10: a path that one strategy has imported is never imported again by the
\* other strategy: no path has a Media row from each of the two.
C10_CrossStrategyOnce ==
    \A i, j \in DOMAIN media :
       media[i].source = media[j].source => media[i].by = media[j].by

\* C11: with two runs of the scan command at work on the same directory,
\* every source path is handed to media creation at most once in total.
C11_HandedOverOnce ==
    \A p \in Paths : Cardinality(MediaFrom(media, p)) <= 1

\* C12: with two runs of the scan command at work on the same directory,
\* the ledger table never gets a second row for a source path, and no step
\* removes a row: the set of source paths in the ledger only grows.
C12_LedgerKeys ==
    /\ [](\A p \in Paths :
            /\ inserts[p] <= 1
            /\ p \in DOMAIN ledger <=> inserts[p] = 1)
    /\ [][DOMAIN ledger \subseteq DOMAIN ledger']_vars

\* Both runs have called get_or_create for the same path and stand before
\* its import, while the ledger holds one row for it and two rows in all.
C12_Witness ==
    /\ cmd_pc = "import"
    /\ other.cmd_pc = "import"
    /\ file_path = other.file_path
    /\ inserts[file_path] = 1
    /\ Cardinality(DOMAIN ledger) = 2

\* C13: when the import of a file fails during a scan pass, the ledger row
\* of the file is left as it was (media, checksum and import time unset
\* unless an earlier import set them), no Media row is added and the file
\* is not deleted; and a pass that is not a dry run attempts the import of
\* every eligible file it observes whose ledger row has no media.
C13_FailedImportRetried ==
    /\ [][(cmd_pc = "import" /\ cmd_pc' = "iter") =>
             /\ ledger' = ledger
             /\ media' = media
             /\ fs' = fs
             /\ ~ options.force =>
                   /\ ledger'[file_path].media = NoMedia
                   /\ ledger'[file_path].md5sum = NoMd5
                   /\ ledger'[file_path].imported_at = NoTime]_vars
    /\ [][(/\ cmd_pc \in {"get", "save"}
           /\ cmd_pc' \in {"iter", "import"}
           /\ ~ IsImported(ledger'[file_path])
           /\ ~ options.dry_run) =>
              cmd_pc' = "import" /\ file_path' = file_path]_vars

\* A pass that is neither forced nor a dry run has gone over an eligible
\* file, its import has failed, and the file and its unmarked ledger row
\* are still there.
C13_Witness ==
    \E p \in fs \ todo :
       /\ cmd_pc = "iter"
       /\ ~ options.dry_run
       /\ ~ options.force
       /\ ScanAdmits(p)
       /\ p \in DOMAIN ledger
       /\ ledger[p].last_seen = now
       /\ ledger[p].media = NoMedia
       /\ ledger[p].md5sum = NoMd5
       /\ ledger[p].imported_at = NoTime

\* C20: when a scan pass observes an eligible file, a ledger row keyed by
\* the path exists once get_or_create has returned; when the pass comes to
\* the tests of is_imported and --dry-run, whether or not the file is then
\* imported, the row carries the config name of the pass and its last_seen
\* is the time of the observation; last_seen of a row never decreases.
C20_ObservationUpserts ==
    /\ [][(cmd_pc = "get" /\ cmd_pc' # "get") =>
             file_path \in DOMAIN ledger']_vars
    /\ [][(cmd_pc \in {"get", "save"} /\ cmd_pc' \in {"iter", "import"}) =>
             /\ file_path \in DOMAIN ledger'
             /\ ledger'[file_path].config_name = config_name
             /\ ledger'[file_path].last_seen = now]_vars
    /\ [][\A p \in DOMAIN ledger :
             /\ p \in DOMAIN ledger'
             /\ ledger'[p].last_seen >= ledger[p].last_seen]_vars

\* A pass named archive has observed again, without importing it, a file
\* imported earlier, while the row of a file it has yet to observe still
\* carries the name incoming.
C20_Witness ==
    \E p \in fs \ todo, q \in todo :
       /\ cmd_pc = "iter"
       /\ config_name = "archive"
       /\ ~ options.force
       /\ p \in DOMAIN ledger
       /\ IsImported(ledger[p])
       /\ ledger[p].last_seen > ledger[p].imported_at
       /\ ledger[p].last_seen = now
       /\ ledger[p].config_name = "archive"
       /\ q \in DOMAIN ledger
       /\ ledger[q].config_name = "incoming"
       /\ ledger[q].last_seen < now

\* C16: a failure while one file is handled does not keep the other files
\* of the same scan pass from being processed: a pass ends only when no
\* file of the directory is left unvisited.
C16_PassVisitsAllFiles ==
    [][(cmd_pc # "idle" /\ cmd_pc' = "idle") => todo = {}]_vars

\* C14: a configuration error in one configured directory does not keep the
\* sibling configurations of the same run from being processed: when the
\* command ends on the error, process_config has been called for every
\* valid configuration.
C14_SiblingsProcessed ==
    handle_pc = "failed" =>
       \A i \in DOMAIN configs :
          ~ RaisesCommandError(configs[i]) =>
             \E k \in DOMAIN visited : visited[k] = i

\* C19: with --once the command, when it ends, has visited every
\* configured directory exactly once, in the order of the configuration.
C19_OnceVisitsAll ==
    (once /\ handle_pc \in {"done", "failed"}) =>
       visited = [i \in 1..Len(configs) |-> i]

\* How many observers of the list obs watch the directory at position i.
ObserversIn(obs, i) == Cardinality({ k \in DOMAIN obs : obs[k] = i })

\* Whether relocation is off or has a processed directory it can use.
RelocationUsable == relocation \in {"off", "ok"}

\* C15 as stated: a call of start() with a resolvable user starts one
\* observer for every directory that exists, is a directory and is
\* readable, and none for the others; it returns failure exactly when it
\* started no observer; and running is true afterwards exactly when it
\* returned success.
C15_OneSessionPerValidDir ==
    [][(Callable /\ caller_pc' = "start_returned" /\ watch_user_found) =>
          /\ \A i \in DOMAIN watch_dirs :
                ObserversIn(observers', i) =
                   ObserversIn(observers, i) +
                      (IF watch_dirs[i] \in {"ok", "unwatchable"}
                       THEN 1 ELSE 0)
          /\ start_result' = "failed" <=> observers' = observers
          /\ running' <=> start_result' = "ok"]_vars

\* C15: a call of start() starts one observer for every valid directory
\* whose observer could be started, provided the user is resolvable and
\* relocation is off or has a processed directory it can use, and no
\* observer otherwise; it returns failure exactly when it started no
\* observer, which is when the monitor holds none; and running is true
\* afterwards exactly when it returned success.
C15_StartSessions ==
    [][(Callable /\ caller_pc' = "start_returned") =>
          /\ \A i \in DOMAIN watch_dirs :
                ObserversIn(observers', i) =
                   ObserversIn(observers, i) +
                      (IF /\ watch_dirs[i] = "ok"
                          /\ watch_user_found
                          /\ RelocationUsable
                       THEN 1 ELSE 0)
          /\ start_result' = "failed" <=> observers' = observers
          /\ start_result' = "failed" <=> observers' = <<>>
          /\ running' <=> start_result' = "ok"]_vars

\* start() has returned success with one directory watched and an invalid
\* one skipped.
C15_Witness ==
    /\ caller_pc = "start_returned"
    /\ start_result = "ok"
    /\ running
    /\ Len(watch_dirs) = 2
    /\ Len(observers) = 1
    /\ \E i \in DOMAIN watch_dirs :
          watch_dirs[i] \in {"missing", "file", "unreadable"}

\* C17: whenever stop() has returned, in whatever state it was called,
\* every handler the monitor created has been told to stop, the lists of
\* observers and handlers are empty and running is false.
C17_StopAnywhere ==
    caller_pc = "stop_returned" =>
       /\ \A h \in DOMAIN handler_running : ~ handler_running[h]
       /\ observers = <<>>
       /\ handlers = <<>>
       /\ ~ running

\* stop() has returned after a start() that failed part-way: the handler
\* was created and no observer could be started.
C17_Witness ==
    /\ caller_pc = "stop_returned"
    /\ start_result = "failed"
    /\ Len(handler_running) = 1
    /\ ~ handler_running[1]

\* C18: wait() returns from a running monitor only by performing stop();
\* whenever wait() has returned, running is false and no observer is held,
\* and the handlers of a monitor that had been started are stopped and
\* released.
C18_WaitEndsStopped ==
    /\ [](caller_pc = "wait_returned" =>
            /\ ~ running
            /\ observers = <<>>
            /\ start_result = "ok" =>
                  /\ handlers = <<>>
                  /\ \A h \in DOMAIN handler_running : ~ handler_running[h])
    /\ [][(caller_pc = "waiting" /\ running /\ caller_pc' # "waiting") =>
             caller_pc' = "wait_stop_handlers"]_vars
    /\ [][(caller_pc # "wait_returned" /\ caller_pc' = "wait_returned") =>
             \/ caller_pc = "waiting" /\ ~ running
             \/ /\ caller_pc = "wait_stop_observers"
                /\ ~ running'
                /\ observers' = <<>>
                /\ handlers' = <<>>
                /\ \A h \in DOMAIN handler_running' :
                      ~ handler_running'[h]]_vars

\* wait() has returned on a monitor that start() had set running.
C18_Witness ==
    /\ caller_pc = "wait_returned"
    /\ start_result = "ok"
    /\ Len(handler_running) = 1
    /\ ~ handler_running[1]
    /\ ~ running

\* C21: the scan command removes a source file only when delete is
\* configured, in a pass that is not a dry run, after the Media row of the
\* file has been created and the ledger row of the file has been saved with
\* a reference to it; a file that has left the directory always has a
\* ledger row with a media reference; a skipped, failed or dry-run outcome
\* removes nothing.
C21_DeleteAfterMark ==
    /\ [][fs' # fs =>
             /\ cmd_pc = "delete"
             /\ fs' = fs \ {file_path}
             /\ delete_after_import
             /\ ~ options.dry_run
             /\ file_path \in DOMAIN ledger
             /\ IsImported(ledger[file_path])
             /\ ledger[file_path].media \in DOMAIN media
             /\ media[ledger[file_path].media].source = file_path
             /\ ledger[file_path].imported_at # NoTime]_vars
    /\ [](\A p \in DOMAIN ledger : p \notin fs => IsImported(ledger[p]))
    /\ [][(\/ cmd_pc = "iter"
           \/ cmd_pc = "import" /\ cmd_pc' = "iter"
           \/ options.dry_run) => fs' = fs]_vars

\* A pass configured to delete has imported a file, marked its ledger row
\* and removed the file.
C21_Witness ==
    \E p \in DOMAIN ledger :
       /\ delete_after_import
       /\ cmd_pc = "iter"
       /\ p \notin fs
       /\ IsImported(ledger[p])
       /\ media[ledger[p].media].source = p

\* C22: in the event-driven handler a file leaves the watched directory only
\* in the relocation step of its own import and only when move_after_import
\* is set together with a processed directory; a file whose bytes a Media
\* row already holds gets no Media row and, when moved, goes to the
\* duplicates subdirectory; a file goes to the imported subdirectory only
\* after its Media row was saved in the same import; and a file that was
\* not valid, whose checksum failed or whose Media row was not created
\* stays where it is.
C22_PostProcessing ==
    /\ [][(fs' # fs \/ processed' # processed) =>
             /\ worker_pc \in {"move", "move_duplicate"}
             /\ move_after_import
             /\ processed_dir
             /\ Importing \in fs
             /\ fs' = fs \ {Importing}
             /\ \E t \in processed' :
                   /\ t.dir = IF worker_pc = "move" THEN "imported"
                                                    ELSE "duplicates"
                   /\ t.name = Basename(PathName(Importing))
                   /\ t \notin processed \/ t.stamp = now]_vars
    /\ [][(worker_pc = "lookup" /\ worker_pc' # "lookup") =>
             /\ media' = media
             /\ MediaWithMd5(Md5(Content(Importing))) # NoMedia =>
                   worker_pc' \in {"move_duplicate", "process"}]_vars
    /\ [][(worker_pc # "move_duplicate" /\ worker_pc' = "move_duplicate") =>
             /\ worker_pc = "lookup"
             /\ MediaWithMd5(Md5(Content(Importing))) # NoMedia]_vars
    /\ [][media' # media =>
             /\ worker_pc = "save"
             /\ MediaWithMd5(Md5(Content(Importing))) = NoMedia
             /\ Len(media') = Len(media) + 1
             /\ media'[Len(media')].source = Importing
             /\ media'[Len(media')].md5sum = Md5(Content(Importing))]_vars
    /\ [][(worker_pc # "move" /\ worker_pc' = "move") =>
             /\ worker_pc = "save"
             /\ Len(media') = Len(media) + 1
             /\ media'[Len(media')].source = Importing]_vars
    /\ [](worker_pc \in ImportPcs =>
            /\ FileSize(Importing) > 0
            /\ FileSize(Importing) <= UploadMaxSize)

\* Of two files with the same bytes one has been imported and moved to the
\* imported subdirectory and the other moved to the duplicates subdirectory
\* without a Media row of its own.
C22_Witness ==
    /\ fs = {}
    /\ Len(media) = 1
    /\ \E t \in processed : t.dir = "imported"
    /\ \E t \in processed : t.dir = "duplicates"

\* C23: a relocation never overwrites a file already present in the
\* destination: every step that moves a file out of a watched directory
\* adds a name to the processed directory and keeps every name that was
\* there, so that every relocated file has a destination name of its own.
C23_NoOverwrite ==
    [][fs' \subseteq fs /\ fs' # fs =>
          /\ processed \subseteq processed'
          /\ Cardinality(processed') = Cardinality(processed) + 1]_vars

\* C24: the pending-file map changes only in a step of the thread that
\* holds the handler's lock, callback or worker, inside its with block;
\* the worker does not hold the lock while it imports (validates, checksums,
\* creates the Media row, relocates) nor while it sleeps; and a callback
\* that waits for the lock while the worker imports finds the lock free.
C24_LockDiscipline ==
    /\ [][pending_files' # pending_files =>
             /\ lock' = lock
             /\ \/ lock = "callback" /\ event_pc = "locked"
                \/ lock = "worker" /\ worker_pc = "locked"]_vars
    /\ [](worker_pc \in {"process", "sleep", "loop"} \cup ImportPcs =>
            lock # "worker")
    /\ [][(media' # media \/ fs' # fs \/ processed' # processed
              \/ (/\ files_to_process # <<>>
                  /\ files_to_process' = Tail(files_to_process))) =>
             lock # "worker"]_vars
    /\ []((event_pc = "wait" /\ worker_pc \in {"process"} \cup ImportPcs) =>
            lock = "free")
    /\ [](lock = "callback" <=> event_pc \in {"locked", "stored"})
    /\ [](lock = "worker" <=> worker_pc \in {"locked", "drained"})

\* A callback holds the lock and has written the pending map while the
\* worker, outside the lock, stands before the save of a Media row.
C24_Witness ==
    /\ worker_pc = "save"
    /\ lock = "callback"
    /\ event_pc = "stored"
    /\ pending_files # <<>>

\* C25: in every state of the handler the pending map holds no path put
\* there by a directory event, no path whose file name starts with "." or
\* ends with ".tmp" or ".part", and, under a non-empty allow-list, no path
\* whose extension (case and leading dot ignored) is not listed.
C25_PendingExcludes ==
    \A i \in DOMAIN pending_files :
       /\ ~ entered_as_directory[pending_files[i].path]
       /\ ~ ExcludedName(pending_files[i].path)
       /\ watch_extensions # <<>> =>
             ListedExtension(pending_files[i].path, watch_extensions)

\* Under a non-empty allow-list the directory holds a listed file, which
\* is pending, and a file with another extension, which is not.
C25_Witness ==
    /\ watch_extensions # <<>>
    /\ \E p \in fs : PendingIndex(p) # 0
    /\ \E q \in fs :
          /\ ~ ListedExtension(q, watch_extensions)
          /\ PendingIndex(q) = 0
    /\ now > 0

\* Whether the worker holds path p in its list of settled files.
InFilesToProcess(p) == \E i \in DOMAIN files_to_process : files_to_process[i] = p

\* C26: with the worker scheduled fairly, every path in the pending map is
\* in the end taken out of it and put on the worker's list of settled
\* files, and every path on that list is in the end handed to
\* _import_media_file, whatever became of the imports before it; a path
\* leaves the list in no other way.
C26_PendingIsImported ==
    /\ \A p \in Paths :
          (PendingIndex(p) # 0) ~> (PendingIndex(p) = 0 /\ InFilesToProcess(p))
    /\ \A p \in Paths : InFilesToProcess(p) ~> ~ InFilesToProcess(p)
    /\ [][\A p \in Paths :
             (InFilesToProcess(p) /\ ~ InFilesToProcess(p)') =>
                /\ worker_pc \in {"process"} \cup ImportPcs
                /\ Importing = p
                /\ files_to_process' = Tail(files_to_process)]_vars

\* Two files settled together; the import of the first one failed and left
\* it without a Media row, and the second one was imported all the same.
C26_Witness ==
    \E p \in fs, q \in fs :
       /\ p < q
       /\ episode_settles[p] = 1
       /\ episode_settles[q] = 1
       /\ pending_files = <<>>
       /\ files_to_process = <<>>
       /\ FileSize(p) > 0
       /\ FileSize(p) <= UploadMaxSize
       /\ MediaFrom(media, p) = {}
       /\ MediaFrom(media, q) # {}
       /\ Len(media) = 1

\* C27: whenever start() has returned failure, no handler the monitor
\* created has its worker thread running, and the monitor holds no handler
\* and no observer.
C27_FailedStartLeavesNothing ==
    (caller_pc = "start_returned" /\ start_result = "failed") =>
       /\ \A h \in DOMAIN handler_running : ~ handler_running[h]
       /\ handlers = <<>>
       /\ observers = <<>>

\* C28: once stop() of the handler has returned, the worker starts no
\* further import: no call of _import_media_file begins after that; a call
\* that had begun before may run to its end.
C28_NoImportAfterStop ==
    [][(stop_pc = "returned" /\ worker_pc = "process"
           /\ files_to_process # <<>>) =>
          (worker_pc' = "process"
              /\ files_to_process' = files_to_process)]_vars

\* C29: no step of the event-driven handler (callbacks, worker, import,
\* relocation) creates or changes a ledger row, and whether the handler
\* goes on to create a Media row is decided by the Media rows found under
\* the checksum alone, whatever the ledger says about the path.
C29_EventLedgerFrame ==
    /\ [][(handler_vars' # handler_vars \/ processed' # processed) =>
             ledger' = ledger /\ inserts' = inserts]_vars
    /\ [][(worker_pc = "lookup" /\ worker_pc' = "save") =>
             \A i \in DOMAIN media :
                media[i].md5sum # Md5(Content(Importing))]_vars
    /\ [][(/\ worker_pc = "lookup"
           /\ worker_pc' # "lookup"
           /\ \A i \in DOMAIN media :
                 media[i].md5sum # Md5(Content(Importing))) =>
             worker_pc' \in {"save", "process"}]_vars
    /\ [][(worker_pc = "save" /\ worker_pc' # "save" /\ media' # media) =>
             /\ ledger' = ledger
             /\ media'[Len(media')].by = "event"
             /\ media'[Len(media')].source = Importing]_vars

\* The handler has imported a file for which the scan command had written
\* a ledger row without a media reference, and the row is as the scan
\* command left it.
C29_Witness ==
    \E p \in DOMAIN ledger :
       /\ ledger[p].media = NoMedia
       /\ ledger[p].imported_at = NoTime
       /\ \E i \in DOMAIN media : media[i].source = p /\ media[i].by = "event"
       /\ cmd_pc = "idle"
====
